---- MODULE Spec2Model ----
(***************************************************************************)
(* A model of characteristic.py: the Attribute metadata object, the class  *)
(* decorators with_cmp, with_repr, with_init, immutable and attributes,    *)
(* the synthesized initializer characteristic_init and the immutability    *)
(* sentry.                                                                 *)
(*                                                                         *)
(* Python values are modelled as integers: 0..MaxVal are ordinary values,  *)
(* NOTHING is the module's sentinel object, PyNone is Python's None.  A    *)
(* default factory is modelled by its kind: "fresh" returns a new value on *)
(* every call (the n-th call of the run returns MaxVal + n), "nothing"     *)
(* returns the NOTHING sentinel, and "None" is the absent factory.         *)
(***************************************************************************)
EXTENDS Integers, Sequences, FiniteSets, TLC

MaxVal == 1
MaxCalls == 2

NOTHING == -1
PyNone == -2

Names == {"x", "y"}
KwNames == {"x", "y", "z"}
Values == 0..MaxVal
NoFactory == "None"
Factories == {"fresh", "nothing"}

\* bool(v) of a Python value: zero and None are falsy, every other value,
\* the NOTHING object included, is truthy.
Truthy(v) == v \notin {0, PyNone}

\* d[k] = v added to a dictionary (a function from its keys).
Put(d, k, v) == [n \in (DOMAIN d) \cup {k} |-> IF n = k THEN v ELSE d[n]]

\* d without the key k.
Drop(d, k) == [n \in (DOMAIN d) \ {k} |-> d[n]]

EmptyDict == [n \in {} |-> 0]

(***************************************************************************)
(* class Attribute                                                         *)
(***************************************************************************)

\* An object with __slots__ name, _default, _default_factory; slots is the
\* set of slots that have been assigned.
AttributeObject(name, slots, dflt, factory) ==
    [isAttribute |-> TRUE, name |-> name, slots |-> slots,
     _default |-> dflt, _default_factory |-> factory]

\* A plain string element of an attrs list.
PlainName(name) ==
    [isAttribute |-> FALSE, name |-> name, slots |-> {},
     _default |-> NOTHING, _default_factory |-> NoFactory]

\* A faulty variant: None is taken for "no default value" too.
AttributeInitNoneIsNothing(name, default_value, default_factory) ==
    IF default_value \notin {NOTHING, PyNone} /\ default_factory # NoFactory
    THEN [err |-> "ValueError", obj |-> PlainName(name)]
    ELSE IF default_value # NOTHING
    THEN [err |-> "none",
          obj |-> AttributeObject(name, {"_default"}, default_value, NoFactory)]
    ELSE IF default_factory # NoFactory
    THEN [err |-> "none",
          obj |-> AttributeObject(name, {"_default_factory"}, NOTHING, default_factory)]
    ELSE [err |-> "none",
          obj |-> AttributeObject(name, {"_default"}, NOTHING, NoFactory)]

\* Attribute.__init__(name, default_value=NOTHING, default_factory=None)
AttributeInit(name, default_value, default_factory) ==
    IF default_value # NOTHING /\ default_factory # NoFactory
    THEN [err |-> "ValueError", obj |-> PlainName(name)]
    ELSE IF default_value # NOTHING
    THEN [err |-> "none",
          obj |-> AttributeObject(name, {"_default"}, default_value, NoFactory)]
    ELSE IF default_factory # NoFactory
    THEN [err |-> "none",
          obj |-> AttributeObject(name, {"_default_factory"}, NOTHING, default_factory)]
    ELSE [err |-> "none",
          obj |-> AttributeObject(name, {"_default"}, NOTHING, NoFactory)]

\* The call default_factory(): the result and the log of invocations.  n is
\* the number of factory calls made so far in the run.
CallFactory(factory, n) ==
    IF factory = "fresh" THEN MaxVal + n + 1 ELSE NOTHING

\* A faulty variant: the factory is called twice and the second result is used.
GetDefaultTwice(a, n) ==
    IF "_default" \in a.slots
    THEN [v |-> a._default, calls |-> <<>>, err |-> "none"]
    ELSE IF "_default_factory" \in a.slots /\ a._default_factory # NoFactory
    THEN [v |-> CallFactory(a._default_factory, n + 1),
          calls |-> << <<a.name, CallFactory(a._default_factory, n)>>,
                       <<a.name, CallFactory(a._default_factory, n + 1)>> >>,
          err |-> "none"]
    ELSE [v |-> NOTHING, calls |-> <<>>, err |-> "AttributeError"]

\* The read a._default: the slot if it is set, else Attribute.__getattr__,
\* which calls the factory.  calls lists the factory invocations made, each
\* with the attribute's name and the value returned.
GetDefault(a, n) ==
    IF "_default" \in a.slots
    THEN [v |-> a._default, calls |-> <<>>, err |-> "none"]
    ELSE IF "_default_factory" \in a.slots /\ a._default_factory # NoFactory
    THEN [v |-> CallFactory(a._default_factory, n),
          calls |-> << <<a.name, CallFactory(a._default_factory, n)>> >>,
          err |-> "none"]
    ELSE [v |-> NOTHING, calls |-> <<>>, err |-> "AttributeError"]

\* _ensure_attributes(attrs)
EnsureAttributes(attrs) ==
    [i \in 1..Len(attrs) |->
        IF ~attrs[i].isAttribute
        THEN AttributeInit(attrs[i].name, NOTHING, NoFactory).obj
        ELSE attrs[i]]

(***************************************************************************)
(* with_cmp                                                                *)
(***************************************************************************)

NotImplemented == "NotImplemented"

\* attrs_to_tuple(obj)
attrs_to_tuple(attrs, obj) ==
    [i \in 1..Len(attrs) |-> obj.fields[attrs[i].name]]

\* Python's tuple comparison: the first index at which the items differ
\* decides; when there is none, the lengths decide.
RECURSIVE FirstDiff(_, _, _)
FirstDiff(s, t, i) ==
    IF i > Len(s) \/ i > Len(t) THEN 0
    ELSE IF s[i] # t[i] THEN i
    ELSE FirstDiff(s, t, i + 1)

TupleEq(s, t) == Len(s) = Len(t) /\ FirstDiff(s, t, 1) = 0

TupleLt(s, t) ==
    LET i == FirstDiff(s, t, 1)
    IN IF i = 0 THEN Len(s) < Len(t) ELSE s[i] < t[i]

TupleLe(s, t) ==
    LET i == FirstDiff(s, t, 1)
    IN IF i = 0 THEN Len(s) <= Len(t) ELSE s[i] <= t[i]

TupleGt(s, t) ==
    LET i == FirstDiff(s, t, 1)
    IN IF i = 0 THEN Len(s) > Len(t) ELSE s[i] > t[i]

TupleGe(s, t) ==
    LET i == FirstDiff(s, t, 1)
    IN IF i = 0 THEN Len(s) >= Len(t) ELSE s[i] >= t[i]

\* A comparison result as a value that NotImplemented can be compared with.
Bool(b) == IF b THEN "True" ELSE "False"

\* A faulty variant: isinstance instead of class identity.
eqIsInstance(attrs, self, other) ==
    IF other.class = self.class \/ (other.class = "Sub" /\ self.class = "Record")
    THEN Bool(TupleEq(attrs_to_tuple(attrs, self), attrs_to_tuple(attrs, other)))
    ELSE NotImplemented

eq(attrs, self, other) ==
    IF other.class = self.class
    THEN Bool(TupleEq(attrs_to_tuple(attrs, self), attrs_to_tuple(attrs, other)))
    ELSE NotImplemented

ne(attrs, self, other) ==
    LET result == eq(attrs, self, other)
    IN IF result = NotImplemented THEN NotImplemented
       ELSE Bool(result # "True")

\* A faulty variant: the last declared attribute is compared first.
ltLastFirst(attrs, self, other) ==
    LET rev == [i \in 1..Len(attrs) |-> attrs[Len(attrs) + 1 - i]]
    IN IF other.class = self.class
       THEN Bool(TupleLt(attrs_to_tuple(rev, self), attrs_to_tuple(rev, other)))
       ELSE NotImplemented

lt(attrs, self, other) ==
    IF other.class = self.class
    THEN Bool(TupleLt(attrs_to_tuple(attrs, self), attrs_to_tuple(attrs, other)))
    ELSE NotImplemented

le(attrs, self, other) ==
    IF other.class = self.class
    THEN Bool(TupleLe(attrs_to_tuple(attrs, self), attrs_to_tuple(attrs, other)))
    ELSE NotImplemented

gt(attrs, self, other) ==
    IF other.class = self.class
    THEN Bool(TupleGt(attrs_to_tuple(attrs, self), attrs_to_tuple(attrs, other)))
    ELSE NotImplemented

ge(attrs, self, other) ==
    IF other.class = self.class
    THEN Bool(TupleGe(attrs_to_tuple(attrs, self), attrs_to_tuple(attrs, other)))
    ELSE NotImplemented

(***************************************************************************)
(* The class object: its method table                                      *)
(***************************************************************************)

\* A class as the user wrote it: the methods it inherits from object, and
\* its own __init__ (the post-construction hook).
UserClass ==
    [__eq__ |-> "object", __ne__ |-> "object", __lt__ |-> "object",
     __le__ |-> "object", __gt__ |-> "object", __ge__ |-> "object",
     __hash__ |-> "object", __repr__ |-> "object",
     __setattr__ |-> "object", __init__ |-> "user_init",
     __original_init__ |-> "unset", __original_setattr__ |-> "unset",
     __characteristic_setattr__ |-> "unset"]

\* with_cmp(attrs).wrap(cl)
WithCmpWrap(cl) ==
    [cl EXCEPT !.__eq__ = "eq", !.__ne__ = "ne", !.__lt__ = "lt",
               !.__le__ = "le", !.__gt__ = "gt", !.__ge__ = "ge",
               !.__hash__ = "hash_"]

\* with_repr(attrs).wrap(cl)
WithReprWrap(cl) == [cl EXCEPT !.__repr__ = "repr_"]

\* immutable(attrs).wrap(cl)
ImmutableWrap(cl) ==
    [cl EXCEPT !.__original_setattr__ = cl.__setattr__,
               !.__setattr__ = "characteristic_immutability_sentry"]

\* The frozenset of names immutable(attrs) closes over.
ImmutableAttrs(attrs) ==
    {EnsureAttributes(attrs)[i].name : i \in 1..Len(attrs)}

\* A faulty variant: the initializer is bound to the class's current __setattr__.
WithInitWrapCurrentSetattr(cl) ==
    [cl EXCEPT !.__original_init__ = cl.__init__,
               !.__init__ = "characteristic_init",
               !.__characteristic_setattr__ = cl.__setattr__]

\* with_init(attrs, defaults).wrap(cl)
WithInitWrap(cl) ==
    [cl EXCEPT !.__original_init__ = cl.__init__,
               !.__init__ = "characteristic_init",
               !.__characteristic_setattr__ =
                   IF cl.__original_setattr__ # "unset"
                   THEN cl.__original_setattr__
                   ELSE cl.__setattr__]

\* defaults.get(a)
DictGet(d, k) == IF k \in DOMAIN d THEN d[k] ELSE PyNone

\* The body of with_init(attrs, defaults) below its inner functions: the
\* loop that builds new_attrs, or the ValueError it raises.
WithInitAttrs(attrs, defaults) ==
    IF \E i \in 1..Len(attrs) : attrs[i].isAttribute /\ DOMAIN defaults # {}
    THEN [err |-> "ValueError", attrs |-> <<>>]
    ELSE [err |-> "none",
          attrs |-> [i \in 1..Len(attrs) |->
              IF attrs[i].isAttribute THEN attrs[i]
              ELSE LET default_value == DictGet(defaults, attrs[i].name)
                   IN IF Truthy(default_value)
                      THEN AttributeInit(attrs[i].name, default_value, NoFactory).obj
                      ELSE AttributeInit(attrs[i].name, NOTHING, NoFactory).obj]]

\* attributes(attrs, defaults, create_init, make_immutable).wrap(cl): the
\* class as it is left, the closures of the decorators applied, and the
\* error raised.
AttributesWrap(cl, attrs, defaults, create_init, make_immutable) ==
    LET cl1 == WithCmpWrap(WithReprWrap(cl))
        cl2 == IF make_immutable THEN ImmutableWrap(cl1) ELSE cl1
        sentry == IF make_immutable THEN ImmutableAttrs(attrs) ELSE {}
        wi == WithInitAttrs(attrs, defaults)
    IN IF ~create_init
       THEN [cl |-> cl2, sentry_attrs |-> sentry, init_attrs |-> <<>>, err |-> "none"]
       ELSE IF wi.err # "none"
       THEN [cl |-> cl2, sentry_attrs |-> sentry, init_attrs |-> <<>>, err |-> wi.err]
       ELSE [cl |-> WithInitWrap(cl2), sentry_attrs |-> sentry,
             init_attrs |-> wi.attrs, err |-> "none"]

(***************************************************************************)
(* immutable: the sentry                                                   *)
(***************************************************************************)

_VALID_INITS == {"characteristic_init", "__init__"}

\* sys._getframe().f_back is None
NoFrame == "None"

\* A faulty variant: any caller with a frame may write.
SentryAnyFrame(sentry_attrs, prev, fields, attr, value) ==
    IF attr \notin sentry_attrs \/ prev # NoFrame
    THEN [fields |-> Put(fields, attr, value), err |-> "none"]
    ELSE [fields |-> fields, err |-> "TypeError"]

\* characteristic_immutability_sentry(self, attr, value), called from the
\* frame prev (the co_name of its code, or NoFrame).
Sentry(sentry_attrs, prev, fields, attr, value) ==
    IF attr \notin sentry_attrs \/ (prev # NoFrame /\ prev \in _VALID_INITS)
    THEN [fields |-> Put(fields, attr, value), err |-> "none"]
    ELSE [fields |-> fields, err |-> "TypeError"]

\* A call of the set-field method found in a slot of the class, from the
\* frame prev: object.__setattr__ or the sentry.  sentry counts the calls
\* that went through the sentry.
CallSetattr(method, sentry_attrs, prev, fields, attr, value) ==
    IF method = "characteristic_immutability_sentry"
    THEN LET r == Sentry(sentry_attrs, prev, fields, attr, value)
         IN [fields |-> r.fields, err |-> r.err, sentry |-> 1]
    ELSE [fields |-> Put(fields, attr, value), err |-> "none", sentry |-> 0]

(***************************************************************************)
(* with_init: characteristic_init                                          *)
(***************************************************************************)

\* A faulty variant: kw.get instead of kw.pop.
KwPopKeeps(kw, name) ==
    IF name \in DOMAIN kw
    THEN [v |-> kw[name], kw |-> kw]
    ELSE [v |-> NOTHING, kw |-> kw]

\* kw.pop(a.name, NOTHING)
KwPop(kw, name) ==
    IF name \in DOMAIN kw
    THEN [v |-> kw[name], kw |-> Drop(kw, name)]
    ELSE [v |-> NOTHING, kw |-> kw]

\* The state of the loop after self.__characteristic_setattr__ returned w.
AfterSetattr(st, a, w) ==
    [st EXCEPT !.fields = w.fields, !.err = w.err,
               !.errAttr = IF w.err = "none" THEN "" ELSE a.name,
               !.sentryCalls = st.sentryCalls + w.sentry]

\* A faulty variant: the check for a missing value is gone.
InitAssignNoRaise(cl, sentry_attrs, a, st, d) ==
    AfterSetattr(st, a,
        CallSetattr(cl.__characteristic_setattr__, sentry_attrs,
                    "characteristic_init", st.fields, a.name, d.v))

\* The tail of an iteration: the check for a missing value and the
\* assignment of the value d found for the attribute a.
InitAssign(cl, sentry_attrs, a, st, d) ==
    IF d.err # "none"
    THEN [st EXCEPT !.err = d.err, !.errAttr = a.name]
    ELSE IF d.v = NOTHING
    THEN [st EXCEPT !.err = "ValueError", !.errAttr = a.name]
    ELSE AfterSetattr(st, a,
             CallSetattr(cl.__characteristic_setattr__, sentry_attrs,
                         "characteristic_init", st.fields, a.name, d.v))

\* The state of the loop after the read a._default returned d.
AfterDefault(cl, sentry_attrs, a, st, d) ==
    InitAssign(cl, sentry_attrs, a,
               [st EXCEPT !.n = st.n + Len(d.calls),
                          !.calls = st.calls \o d.calls], d)

\* The head of an iteration: the value popped decides whether a._default
\* is read.
InitResolve(cl, sentry_attrs, a, st, popped) ==
    IF popped.v = NOTHING
    THEN AfterDefault(cl, sentry_attrs, a, [st EXCEPT !.kw = popped.kw],
                      GetDefault(a, st.n))
    ELSE InitAssign(cl, sentry_attrs, a, [st EXCEPT !.kw = popped.kw],
                    [v |-> popped.v, calls |-> <<>>, err |-> "none"])

\* One iteration of the loop of characteristic_init, for the attribute a.
InitStep(cl, sentry_attrs, a, st) ==
    InitResolve(cl, sentry_attrs, a, st, KwPop(st.kw, a.name))

\* The loop of characteristic_init from the i-th attribute on; a raise ends it.
RECURSIVE InitLoop(_, _, _, _, _)
InitLoop(cl, sentry_attrs, attrs, i, st) ==
    IF i > Len(attrs) \/ st.err # "none" THEN st
    ELSE InitLoop(cl, sentry_attrs, attrs, i + 1,
                  InitStep(cl, sentry_attrs, attrs[i], st))

\* The end of characteristic_init: a raise in the loop leaves it; else
\* self.__original_init__(*args, **kw) is called with the kw left.
\* hookRaises says whether the user's __init__ raises.
CallOriginalInit(args, kw, hookRaises, st) ==
    IF st.err # "none"
    THEN [done |-> TRUE, args |-> args, kw |-> kw,
          hookRaises |-> hookRaises, fields |-> st.fields,
          n |-> st.n, calls |-> st.calls, err |-> st.err,
          errAttr |-> st.errAttr, sentryCalls |-> st.sentryCalls,
          hookCalls |-> 0, hookArgs |-> <<>>, hookKw |-> EmptyDict,
          hookSaw |-> {}]
    ELSE [done |-> TRUE, args |-> args, kw |-> kw,
          hookRaises |-> hookRaises, fields |-> st.fields,
          n |-> st.n, calls |-> st.calls,
          err |-> IF hookRaises THEN "HookError" ELSE "none",
          errAttr |-> "", sentryCalls |-> st.sentryCalls,
          hookCalls |-> 1, hookArgs |-> args, hookKw |-> st.kw,
          hookSaw |-> DOMAIN st.fields]

\* characteristic_init(self, *args, **kw) on a new instance.  n is the
\* number of factory calls made before.
CharacteristicInit(cl, sentry_attrs, attrs, args, kw, n, hookRaises) ==
    CallOriginalInit(args, kw, hookRaises,
        InitLoop(cl, sentry_attrs, attrs, 1,
                 [fields |-> EmptyDict, kw |-> kw, n |-> n, calls |-> <<>>,
                  err |-> "none", errAttr |-> "", sentryCalls |-> 0]))

NoConstruction ==
    [done |-> FALSE, args |-> <<>>, kw |-> EmptyDict,
     hookRaises |-> FALSE, fields |-> EmptyDict,
     n |-> 0, calls |-> <<>>, err |-> "none", errAttr |-> "",
     sentryCalls |-> 0, hookCalls |-> 0, hookArgs |-> <<>>,
     hookKw |-> EmptyDict, hookSaw |-> {}]

NoWrite ==
    [done |-> FALSE, frame |-> NoFrame, attr |-> "", value |-> 0,
     before |-> EmptyDict, err |-> "none", sentry |-> 0]

NoObject == [exists |-> FALSE, fields |-> EmptyDict]

(***************************************************************************)
(* State                                                                   *)
(***************************************************************************)

VARIABLES
    decl,          \* the arguments of the attributes(...) call
    phase,         \* "defined", then "composed" or "failed" (wrap raised)
    cl,            \* the method table of the class
    init_attrs,    \* attrs as with_init closes over it (new_attrs)
    sentry_attrs,  \* attrs as immutable closes over it
    obj,           \* the instance the last successful construction returned
    construction,  \* the last run of characteristic_init
    write,         \* the last attribute assignment made after construction
    ncalls,        \* the number of default factory calls made so far
    attr_made,     \* the Attribute objects created so far
    attr_call,     \* the last call of Attribute(...)
    cmp_attrs,     \* attrs as with_cmp closes over it
    self,          \* the operands of a comparison
    other,
    result         \* the comparison made and what it returned

mainVars == <<decl, phase, cl, init_attrs, sentry_attrs, obj, construction,
              write, ncalls>>
attrVars == <<attr_made, attr_call>>
cmpVars == <<cmp_attrs, self, other, result>>
vars == <<decl, phase, cl, init_attrs, sentry_attrs, obj, construction,
          write, ncalls, attr_made, attr_call, cmp_attrs, self, other, result>>

(***************************************************************************)
(* Inputs                                                                  *)
(***************************************************************************)

MaxAttrs == 2

\* The values a caller passes for default_value.
DefaultValues == Values \cup {NOTHING, PyNone}

\* The Attribute objects that Attribute(...) can return for a name.
AttributeObjects(name) ==
    {AttributeInit(name, dv, df).obj :
        dv \in {v \in DefaultValues : v = NOTHING},
        df \in Factories \cup {NoFactory}}
    \cup {AttributeInit(name, dv, NoFactory).obj : dv \in DefaultValues}

\* The attrs lists given to attributes(): x alone, or x and a plain "y" in
\* either order, x a plain name or an Attribute of any kind.
AttrLists ==
    LET xs == AttributeObjects("x") \cup {PlainName("x")}
    IN {<<e>> : e \in xs}
       \cup {<<e, PlainName("y")>> : e \in xs}
       \cup {<<PlainName("y"), e>> : e \in xs}

\* The legacy defaults mappings: none (None or {}), or an entry for x.
DefaultsDicts ==
    {EmptyDict} \cup {[n \in {"x"} |-> v] : v \in Values}

\* The keyword arguments of a construction: x absent or given any value, y
\* absent or given a value, the NOTHING object included for both, and an
\* undeclared z.
Kws ==
    {[k \in D |-> IF k = "x" THEN vx ELSE IF k = "y" THEN vy ELSE 0] :
        D \in SUBSET KwNames, vx \in Values \cup {NOTHING},
        vy \in {MaxVal, NOTHING}}

ArgsLists == {<<>>, <<0>>}

\* The callers of an assignment other than the synthesized initializer, by
\* the name of their code object: module-level code, another method of the
\* record, a function named __init__ (the record's own original __init__,
\* the initializer of another class), a function that happens to be named
\* characteristic_init, and a call with no Python frame behind it.
Frames == {"<module>", "method", "__init__", "characteristic_init", NoFrame}

Classes == {"Record", "Sub", "Other"}

Instances == [class : Classes, fields : [Names -> Values]]

\* The attrs lists of plain names.
PlainLists ==
    {<<PlainName("x")>>, <<PlainName("x"), PlainName("y")>>,
     <<PlainName("y"), PlainName("x")>>}

CmpAttrLists == {EnsureAttributes(l) : l \in PlainLists}

NoCall ==
    [done |-> FALSE, name |-> "", default_value |-> NOTHING,
     default_factory |-> NoFactory, err |-> "none", obj |-> PlainName("")]

NoResult == [op |-> "none", value |-> "none"]

NoDecl ==
    [attrs |-> <<>>, defaults |-> EmptyDict, create_init |-> TRUE,
     make_immutable |-> TRUE]

(***************************************************************************)
(* Initial states                                                          *)
(***************************************************************************)

MainInit ==
    /\ decl = NoDecl
    /\ phase = "defined"
    /\ cl = UserClass
    /\ init_attrs = <<>>
    /\ sentry_attrs = {}
    /\ obj = NoObject
    /\ construction = NoConstruction
    /\ write = NoWrite
    /\ ncalls = 0

AttrInit ==
    /\ attr_made = <<>>
    /\ attr_call = NoCall

CmpIdle ==
    /\ cmp_attrs = <<>>
    /\ self = NoObject
    /\ other = NoObject
    /\ result = NoResult

Init == MainInit /\ AttrInit /\ CmpIdle

\* The comparison methods are pure: their inputs are drawn here.
CmpInit ==
    /\ MainInit
    /\ AttrInit
    /\ cmp_attrs \in CmpAttrLists
    /\ self \in Instances
    /\ other \in Instances
    /\ result = NoResult

(***************************************************************************)
(* Actions                                                                 *)
(***************************************************************************)

\* Attribute(name, default_value, default_factory)
NewAttribute(name, default_value, default_factory) ==
    LET r == AttributeInit(name, default_value, default_factory)
    IN /\ Len(attr_made) < MaxAttrs
       /\ attr_call' = [done |-> TRUE, name |-> name,
                        default_value |-> default_value,
                        default_factory |-> default_factory,
                        err |-> r.err, obj |-> r.obj]
       /\ attr_made' = IF r.err = "none" THEN Append(attr_made, r.obj)
                       ELSE attr_made
       /\ UNCHANGED <<mainVars, cmpVars>>

\* attributes(attrs, defaults, create_init, make_immutable)(cl)
Attributes(attrs, defaults, create_init, make_immutable) ==
    /\ phase = "defined"
    /\ \E r \in {AttributesWrap(cl, attrs, defaults, create_init,
                                make_immutable)} :
          /\ phase' = (IF r.err = "none" THEN "composed" ELSE "failed")
          /\ cl' = r.cl
          /\ init_attrs' = r.init_attrs
          /\ sentry_attrs' = r.sentry_attrs
    /\ decl' = [attrs |-> attrs, defaults |-> defaults,
                create_init |-> create_init,
                make_immutable |-> make_immutable]
    /\ UNCHANGED <<obj, construction, write, ncalls, attrVars, cmpVars>>

\* cl(*args, **kw) on a class whose __init__ is characteristic_init
Construct(args, kw, hookRaises) ==
    /\ phase = "composed"
    /\ cl.__init__ = "characteristic_init"
    /\ \E r \in {CharacteristicInit(cl, sentry_attrs, init_attrs, args, kw,
                                    ncalls, hookRaises)} :
          /\ r.n <= MaxCalls
          /\ construction' = r
          /\ ncalls' = r.n
          /\ obj' = (IF r.err = "none"
                     THEN [exists |-> TRUE, fields |-> r.fields]
                     ELSE NoObject)
    /\ write' = NoWrite
    /\ UNCHANGED <<decl, phase, cl, init_attrs, sentry_attrs, attrVars,
                   cmpVars>>

\* obj.attr = value, executed in the frame given, on a constructed instance
SetAttr(frame, attr, value) ==
    /\ obj.exists
    /\ \E r \in {CallSetattr(cl.__setattr__, sentry_attrs, frame, obj.fields,
                             attr, value)} :
          /\ write' = [done |-> TRUE, frame |-> frame, attr |-> attr,
                       value |-> value, before |-> obj.fields,
                       err |-> r.err, sentry |-> r.sentry]
          /\ obj' = [obj EXCEPT !.fields = r.fields]
    /\ construction' = NoConstruction
    /\ UNCHANGED <<decl, phase, cl, init_attrs, sentry_attrs, ncalls,
                   attrVars, cmpVars>>

Compare(op, value) ==
    /\ result' = [op |-> op, value |-> value]
    /\ UNCHANGED <<mainVars, attrVars, cmp_attrs, self, other>>

Eq == Compare("eq", eq(cmp_attrs, self, other))
Ne == Compare("ne", ne(cmp_attrs, self, other))
Lt == Compare("lt", lt(cmp_attrs, self, other))
Le == Compare("le", le(cmp_attrs, self, other))
Gt == Compare("gt", gt(cmp_attrs, self, other))
Ge == Compare("ge", ge(cmp_attrs, self, other))

Next ==
    \/ \E attrs \in AttrLists, defaults \in DefaultsDicts,
          create_init \in BOOLEAN, make_immutable \in BOOLEAN :
            Attributes(attrs, defaults, create_init, make_immutable)
    \/ \E args \in ArgsLists, kw \in Kws, hookRaises \in BOOLEAN :
            Construct(args, kw, hookRaises)

Spec == Init /\ [][Next]_vars

\* Assignments are followed from the state a composition and a successful
\* construction leave: attrs are plain names, every one of them supplied.
ImmutableInit ==
    \E attrs \in PlainLists, make_immutable \in BOOLEAN :
      \E kw \in [{attrs[i].name : i \in 1..Len(attrs)} -> Values] :
        \E r \in {AttributesWrap(UserClass, attrs, EmptyDict, TRUE,
                                 make_immutable)} :
          \E c \in {CharacteristicInit(r.cl, r.sentry_attrs, r.init_attrs,
                                       <<>>, kw, 0, FALSE)} :
            /\ decl = [attrs |-> attrs, defaults |-> EmptyDict,
                       create_init |-> TRUE,
                       make_immutable |-> make_immutable]
            /\ phase = "composed"
            /\ cl = r.cl
            /\ init_attrs = r.init_attrs
            /\ sentry_attrs = r.sentry_attrs
            /\ obj = [exists |-> TRUE, fields |-> c.fields]
            /\ construction = c
            /\ write = NoWrite
            /\ ncalls = 0
            /\ AttrInit
            /\ CmpIdle

ImmutableNext ==
    \E frame \in Frames, attr \in KwNames, value \in Values :
        SetAttr(frame, attr, value)

SpecImmutable == ImmutableInit /\ [][ImmutableNext]_vars

AttrNext ==
    \E name \in Names, default_value \in DefaultValues,
       default_factory \in Factories \cup {NoFactory} :
        NewAttribute(name, default_value, default_factory)

SpecAttribute == Init /\ [][AttrNext]_vars

CmpNext == Eq \/ Ne \/ Lt \/ Le \/ Gt \/ Ge

SpecCmp == CmpInit /\ [][CmpNext]_vars

(***************************************************************************)
(* Properties                                                              *)
(***************************************************************************)

\* The names declared in the attrs given to attributes().
Declared == {decl.attrs[i].name : i \in 1..Len(decl.attrs)}

GuardInstalled == phase = "composed" /\ decl.make_immutable

\* C1 as stated: on a type composed with immutability enforcement, every
\* assignment to a declared attribute made after construction by a caller
\* other than the synthesized initializer raises TypeError and leaves the
\* attribute as it was.
C1_AnyOtherCallerRejected ==
    (write.done /\ GuardInstalled /\ write.attr \in Declared)
        => (write.err = "TypeError" /\ obj.fields = write.before)

\* C1 as amended: the assignment is rejected, and the instance left as it
\* was, when the calling function is named neither __init__ nor
\* characteristic_init; a caller bearing one of these names is let through
\* and the attribute takes the new value.
C1_CallerNotNamedInitRejected ==
    (write.done /\ GuardInstalled /\ write.attr \in Declared)
        => IF write.frame \in {"__init__", "characteristic_init"}
           THEN write.err = "none" /\ obj.fields[write.attr] = write.value
           ELSE write.err = "TypeError" /\ obj.fields = write.before

C1_Witness ==
    /\ write.done /\ GuardInstalled
    /\ write.attr = "x" /\ write.frame = "method"
    /\ write.value # write.before["x"]
    /\ write.err = "TypeError"

\* C2 as stated, for a composition that synthesizes the initializer:
\* attributes() given a non-empty defaults mapping and an attrs list holding
\* an Attribute instance raises ValueError, and the failure leaves every
\* method of the class as it was before the call.
C2_ConflictLeavesClassUntouched ==
    (/\ phase # "defined"
     /\ decl.create_init
     /\ DOMAIN decl.defaults # {}
     /\ \E i \in 1..Len(decl.attrs) : decl.attrs[i].isAttribute)
        => (phase = "failed" /\ cl = UserClass)

\* What the initializer is given for an attribute, and what the Attribute
\* object holds.
Passed(a) == a.name \in DOMAIN construction.kw
PassedValue(a) == Passed(a) /\ construction.kw[a.name] # NOTHING
HasDefault(a) == "_default" \in a.slots /\ a._default # NOTHING
HasFactory(a) == "_default_factory" \in a.slots
Assigned(a, v) ==
    a.name \in DOMAIN construction.fields /\ construction.fields[a.name] = v
CallsFor(a) ==
    {k \in 1..Len(construction.calls) : construction.calls[k][1] = a.name}
AssignedFactoryResult(a) ==
    \E k \in CallsFor(a) : Assigned(a, construction.calls[k][2])

\* C3 as stated: every declared attribute gets the argument passed for it,
\* else its default value, else the result of its factory; an attribute with
\* none of the three makes the construction fail with ValueError naming it.
C3_EveryAttributeResolved ==
    construction.done =>
        \A i \in 1..Len(init_attrs) :
            LET a == init_attrs[i]
            IN IF Passed(a) THEN Assigned(a, construction.kw[a.name])
               ELSE IF HasDefault(a) THEN Assigned(a, a._default)
               ELSE IF HasFactory(a) THEN AssignedFactoryResult(a)
               ELSE construction.err = "ValueError"
                    /\ construction.errAttr = a.name

\* An attribute for which the initializer finds no value: no argument other
\* than NOTHING, no default value, and no factory or one returning NOTHING.
Missing(a) ==
    /\ ~PassedValue(a)
    /\ ~HasDefault(a)
    /\ (HasFactory(a) => a._default_factory = "nothing")

FirstMissing ==
    IF \E i \in 1..Len(init_attrs) : Missing(init_attrs[i])
    THEN CHOOSE i \in 1..Len(init_attrs) :
            /\ Missing(init_attrs[i])
            /\ \A j \in 1..(i - 1) : ~Missing(init_attrs[j])
    ELSE 0

ResolvedAsDeclared(a) ==
    IF PassedValue(a) THEN Assigned(a, construction.kw[a.name])
    ELSE IF HasDefault(a) THEN Assigned(a, a._default)
    ELSE AssignedFactoryResult(a)

\* C3 as amended: the attributes are resolved in declared order up to the
\* first one left without a value.  An attribute reached gets the argument
\* passed for it unless that is the NOTHING sentinel, else its default
\* value, else the result of its factory; one with none of these, or whose
\* factory returns NOTHING, makes the construction fail with ValueError
\* naming it, and the attributes declared after it are not assigned.
C3_ResolvedInOrderUntilMissing ==
    construction.done =>
        IF FirstMissing = 0
        THEN /\ construction.err # "ValueError"
             /\ \A i \in 1..Len(init_attrs) : ResolvedAsDeclared(init_attrs[i])
        ELSE /\ construction.err = "ValueError"
             /\ construction.errAttr = init_attrs[FirstMissing].name
             /\ \A i \in 1..(FirstMissing - 1) :
                    ResolvedAsDeclared(init_attrs[i])
             /\ \A i \in FirstMissing..Len(init_attrs) :
                    init_attrs[i].name \notin DOMAIN construction.fields

C3_Witness ==
    /\ construction.done
    /\ Len(init_attrs) = 2
    /\ HasDefault(init_attrs[1])
    /\ Passed(init_attrs[1]) /\ ~PassedValue(init_attrs[1])
    /\ Assigned(init_attrs[1], init_attrs[1]._default)
    /\ FirstMissing = 2
    /\ construction.err = "ValueError"

\* C4 as stated: a construction that omits an attribute declared with a
\* factory calls the factory once and stores the result of that call; one
\* that supplies the attribute does not call it.
C4_FactoryOncePerOmission ==
    construction.done =>
        \A i \in 1..Len(init_attrs) :
            LET a == init_attrs[i]
            IN HasFactory(a) =>
                IF Passed(a) THEN CallsFor(a) = {}
                ELSE Cardinality(CallsFor(a)) = 1 /\ AssignedFactoryResult(a)

\* C4 as amended: the factory is called once, and its result stored unless
\* it is NOTHING, in a construction that reaches the attribute (no
\* attribute declared before it is left without a value) and passes no
\* argument for it other than NOTHING; in every other construction it is
\* not called.  A result of NOTHING is not stored: the construction fails.
C4_FactoryOnceWhenReached ==
    construction.done =>
        \A i \in 1..Len(init_attrs) :
            LET a == init_attrs[i]
                reached == FirstMissing = 0 \/ i <= FirstMissing
            IN HasFactory(a) =>
                IF reached /\ ~PassedValue(a)
                THEN /\ Cardinality(CallsFor(a)) = 1
                     /\ IF a._default_factory = "nothing"
                        THEN a.name \notin DOMAIN construction.fields
                        ELSE AssignedFactoryResult(a)
                ELSE CallsFor(a) = {}

C4_Witness ==
    /\ construction.done
    /\ construction.err = "none"
    /\ ncalls = 2
    /\ \E i \in 1..Len(init_attrs) :
        /\ HasFactory(init_attrs[i])
        /\ ~Passed(init_attrs[i])
        /\ Cardinality(CallsFor(init_attrs[i])) = 1
        /\ Assigned(init_attrs[i], MaxVal + 2)

\* C5: on a type composed with the guard and the initializer, the guard is
\* in place, the initializer writes through the set-field method the class
\* had before the guard was installed, no assignment of a construction
\* passes through the guard, and no construction raises TypeError.
C5_InitializerBypassesGuard ==
    (GuardInstalled /\ decl.create_init) =>
        /\ cl.__setattr__ = "characteristic_immutability_sentry"
        /\ cl.__original_setattr__ = UserClass.__setattr__
        /\ cl.__characteristic_setattr__ = UserClass.__setattr__
        /\ construction.done =>
            (construction.sentryCalls = 0 /\ construction.err # "TypeError")

C5_Witness ==
    /\ GuardInstalled /\ decl.create_init
    /\ construction.done /\ construction.err = "none"
    /\ Declared = {"x", "y"}
    /\ DOMAIN construction.fields = {"x", "y"}

\* C8: the user's __init__ is not called when the construction fails for a
\* missing attribute; otherwise it is called once, after every declared
\* attribute has been assigned, with all the positional arguments and the
\* keyword arguments whose names are not declared, and an error it raises
\* is the error of the construction.
C8_HookAfterAttributes ==
    construction.done =>
        IF construction.err = "ValueError"
        THEN construction.hookCalls = 0
        ELSE /\ construction.hookCalls = 1
             /\ Declared \subseteq construction.hookSaw
             /\ construction.hookArgs = construction.args
             /\ construction.hookKw =
                    [k \in (DOMAIN construction.kw) \ Declared |->
                        construction.kw[k]]
             /\ construction.err =
                    (IF construction.hookRaises THEN "HookError" ELSE "none")

C8_Witness ==
    /\ construction.done
    /\ construction.hookCalls = 1
    /\ construction.hookRaises
    /\ construction.err = "HookError"
    /\ construction.args = <<0>>
    /\ DOMAIN construction.kw = {"x", "y", "z"}
    /\ Declared = {"x", "y"}
    /\ DOMAIN construction.hookKw = {"z"}

\* C9 as stated: a plain-name attribute with an entry in the defaults
\* mapping, omitted in a construction that supplies every other attribute,
\* is assigned the mapped value, whatever that value is.
C9_DefaultByPresence ==
    construction.done =>
        \A i \in 1..Len(decl.attrs) :
            LET a == decl.attrs[i]
            IN (/\ ~a.isAttribute
                /\ a.name \in DOMAIN decl.defaults
                /\ a.name \notin DOMAIN construction.kw
                /\ \A j \in 1..Len(decl.attrs) :
                      j # i => PassedValue(decl.attrs[j]))
               => (/\ construction.err # "ValueError"
                   /\ Assigned(a, decl.defaults[a.name]))

\* C10: Attribute(...) raises ValueError exactly when it is given a default
\* value other than NOTHING, None included, together with a factory; given
\* neither, it returns an attribute without a default, which is required.
C10_ConflictingDefaultStrategy ==
    attr_call.done =>
        LET value == attr_call.default_value # NOTHING
            factory == attr_call.default_factory # NoFactory
        IN /\ (value /\ factory) <=> attr_call.err = "ValueError"
           /\ attr_call.err \in {"ValueError", "none"}
           /\ (~value /\ ~factory) =>
                /\ attr_call.obj.isAttribute
                /\ GetDefault(attr_call.obj, 0).v = NOTHING
                /\ GetDefault(attr_call.obj, 0).calls = <<>>
           /\ (value /\ ~factory) =>
                GetDefault(attr_call.obj, 0).v = attr_call.default_value
           /\ (~value /\ factory) =>
                Len(GetDefault(attr_call.obj, 0).calls) = 1

C10_Witness ==
    /\ attr_call.done
    /\ attr_call.default_value = PyNone
    /\ attr_call.default_factory = "fresh"
    /\ attr_call.err = "ValueError"

\* The values of the declared attributes agree, taken in declared order.
SameTuple ==
    \A i \in 1..Len(cmp_attrs) :
        self.fields[cmp_attrs[i].name] = other.fields[cmp_attrs[i].name]

\* C6: eq returns NotImplemented when the classes of the operands differ,
\* a subclass and a class with the same fields included, and otherwise
\* whether the declared attributes have equal values.
C6_EqualsExactType ==
    result.op = "eq" =>
        IF self.class # other.class
        THEN result.value = NotImplemented
        ELSE result.value = Bool(SameTuple)

C6_Witness ==
    /\ result.op = "eq"
    /\ self.class = "Record" /\ other.class = "Sub"
    /\ self.fields = other.fields
    /\ result.value = NotImplemented

\* The first declared attribute on which the operands differ, or 0.
Deciding ==
    IF SameTuple THEN 0
    ELSE CHOOSE i \in 1..Len(cmp_attrs) :
            /\ self.fields[cmp_attrs[i].name] # other.fields[cmp_attrs[i].name]
            /\ \A j \in 1..(i - 1) :
                self.fields[cmp_attrs[j].name] = other.fields[cmp_attrs[j].name]

\* C7: lt, le, gt and ge return NotImplemented when the classes differ;
\* otherwise the first declared attribute on which the operands differ
\* decides, and when there is none le and ge are true and lt and gt false.
C7_LexicographicOrdering ==
    result.op \in {"lt", "le", "gt", "ge"} =>
        IF self.class # other.class
        THEN result.value = NotImplemented
        ELSE LET k == Deciding
                 a == IF k = 0 THEN 0 ELSE self.fields[cmp_attrs[k].name]
                 b == IF k = 0 THEN 0 ELSE other.fields[cmp_attrs[k].name]
             IN result.value =
                  Bool(CASE result.op = "lt" -> a < b
                         [] result.op = "le" -> a <= b
                         [] result.op = "gt" -> a > b
                         [] result.op = "ge" -> a >= b)

C7_Witness ==
    /\ result.op = "lt"
    /\ self.class = other.class
    /\ Len(cmp_attrs) = 2
    /\ cmp_attrs[1].name = "y"
    /\ self.fields["y"] = other.fields["y"]
    /\ self.fields["x"] < other.fields["x"]
    /\ result.value = "True"

====
